---- MODULE Spec2Model ----
(***************************************************************************)
(* A model of merlin/systems/dag/ops/tensorflow.py: the PredictTensorflow  *)
(* inference operator (schema derivation from a model's serving signature, *)
(* export of a Triton model package, and the runtime transform call).      *)
(*                                                                         *)
(* Python values are encoded as follows.                                   *)
(*   Optional[T]      a sequence of length <= 1: None is <<>>, x is <<x>>  *)
(*   a shape dim      None is <<>>, the integer n is <<n>>, the range      *)
(*                    pair (lo, hi) is <<lo, hi>>                          *)
(*   a dict / Schema  a sequence of records in insertion order, the keys   *)
(*                    (names) pairwise different                           *)
(*   a path           a sequence of path components                        *)
(***************************************************************************)
EXTENDS Integers, Sequences, FiniteSets, TLC

VARIABLES
    pc,             \* position of __init__: "start", "tmp", "saved", "derive", "ready", "failed"
    model,          \* the model_or_path argument and what the wrapped model exposes
    path,           \* self.path (Optional)
    input_schema,   \* self.input_schema (Optional: <<>> while the attribute is unset)
    output_schema,  \* self.output_schema (Optional)
    tf_model_name,  \* self._tf_model_name (Optional)
    disk,           \* the directories and files that exist
    pbtxt,          \* the text written to each config.pbtxt, by package directory name
    last,           \* the last completed call on the operator, with its outcome
    exported,       \* history: (node_id, version, package name) of every successful export
    lastExported,   \* history: package name of the most recent successful export (Optional)
    lastNamed,      \* history: name given by the most recent successful export or setter call
    counts,         \* history: temporary directories made, model saves and loads of __init__
    calls,          \* number of calls made on the constructed operator
    default_signature, \* _construct_schemas_from_model: its local default_signature (Optional)
    column_schema,  \* test_compute_dims: the parametrized column schema
    computed_dims   \* test_compute_dims: the value compute_dims returned (Optional)

vars == <<pc, model, path, input_schema, output_schema, tf_model_name, disk, pbtxt,
          last, exported, lastExported, lastNamed, counts, calls, default_signature,
          column_schema, computed_dims>>

None == <<>>

Some(x) == <<x>>

----------------------------------------------------------------------------
(* Bounds of the model *)

\* shape dims and list lengths range over 0..MaxDim
MaxDim == 4

\* explicit column shapes have 1..MaxShapeLen dims
MaxShapeLen == 3

\* node ids range over None and 0..MaxNodeId
MaxNodeId == 0

\* versions range over 1..MaxVersion
MaxVersion == 2

\* calls made on one operator
MaxCalls == 3

----------------------------------------------------------------------------
(* Column schemas and the dimension computation *)

\* ColumnSchema(name, dtype=..., is_list=..., is_ragged=..., dims=...)
ColumnSchema(name, dtype, is_list, is_ragged, dims) ==
    [name |-> name, dtype |-> dtype, is_list |-> is_list, is_ragged |-> is_ragged,
     dims |-> dims, value_count |-> None]

\* the unit feature dim of a scalar column
scalar_shape == <<1>>

\* one dim of an explicit shape: the literal integer, or -1 for None or a (min, max) pair
triton_dim(d) == IF Len(d) = 1 THEN d[1] ELSE -1

compute_dims_ranges_as_max(col_schema, scalar_dims) ==
    IF col_schema.dims # None
    THEN <<-1>> \o [i \in 1..(Len(col_schema.dims[1]) - 1) |->
                       LET d == col_schema.dims[1][i + 1] IN
                       IF d = None THEN -1 ELSE d[Len(d)]]
    ELSE IF col_schema.is_list THEN <<-1, -1>> ELSE <<-1>> \o scalar_dims

compute_dims(col_schema, scalar_dims) ==
    IF col_schema.dims # None
    THEN <<-1>> \o [i \in 1..(Len(col_schema.dims[1]) - 1) |->
                       triton_dim(col_schema.dims[1][i + 1])]
    ELSE IF col_schema.is_list THEN <<-1, -1>> ELSE <<-1>> \o scalar_dims

\* the parametrized cases of test_compute_dims: <<column schema, expected dims>>
test_compute_dims_cases ==
    { <<ColumnSchema("col", "float64", FALSE, FALSE, None), <<-1, 1>> >>,
      <<ColumnSchema("col", "float64", TRUE, FALSE, None), <<-1, -1>> >>,
      <<ColumnSchema("col", "float64", FALSE, FALSE, Some(<<None, <<2>> >>)), <<-1, 2>> >>,
      <<ColumnSchema("col", "float64", FALSE, FALSE, Some(<<None, None>>)), <<-1, -1>> >>,
      <<ColumnSchema("col", "float64", FALSE, FALSE, Some(<<None, <<1, 4>> >>)), <<-1, -1>> >>,
      <<ColumnSchema("col", "float64", FALSE, FALSE, Some(<<None, <<3>>, <<4>> >>)),
        <<-1, 3, 4>> >> }

\* the values one dim of a shape can take
Dims ==
    {None} \cup { <<n>> : n \in 1..MaxDim }
           \cup { p \in (1..MaxDim) \X (1..MaxDim) : p[1] <= p[2] }

RECURSIVE SeqsUpTo(_, _)
SeqsUpTo(S, n) ==
    IF n = 0 THEN { <<>> }
    ELSE LET shorter == SeqsUpTo(S, n - 1) IN
         shorter \cup { Append(s, x) : s \in {t \in shorter : Len(t) = n - 1}, x \in S }

Shapes == SeqsUpTo(Dims, MaxShapeLen) \ { <<>> }

\* the column schemas test_compute_dims is run on
TestColumnSchemas ==
    { ColumnSchema("col", "float64", f[1], f[2], None) :
          f \in { <<FALSE, FALSE>>, <<TRUE, FALSE>>, <<TRUE, TRUE>> } }
    \cup { ColumnSchema("col", "float64", FALSE, FALSE, Some(s)) : s \in Shapes }

----------------------------------------------------------------------------
(* test_compute_dims *)

Idle ==
    /\ pc = "ready"
    /\ model = None
    /\ path = None
    /\ input_schema = None
    /\ output_schema = None
    /\ tf_model_name = None
    /\ disk = {}
    /\ pbtxt = << >>
    /\ last = None
    /\ exported = {}
    /\ lastExported = None
    /\ lastNamed = None
    /\ counts = [tmp |-> 0, save |-> 0, load |-> 0]
    /\ calls = 0
    /\ default_signature = None

InitDims ==
    /\ Idle
    /\ column_schema \in TestColumnSchemas
    /\ computed_dims = None

test_compute_dims ==
    /\ computed_dims = None
    /\ computed_dims' = Some(compute_dims(column_schema, scalar_shape))
    /\ UNCHANGED <<pc, model, path, input_schema, output_schema, tf_model_name, disk,
                   pbtxt, last, exported, lastExported, lastNamed, counts, calls,
                   default_signature, column_schema>>

NextDims == test_compute_dims

SpecDims == InitDims /\ [][NextDims]_vars

\* the remainder of the dims after the leading batch dim, as the specification states it
ExpectedRest(c) ==
    IF c.dims # None
    THEN [i \in 1..(Len(c.dims[1]) - 1) |->
             IF c.dims[1][i + 1] = None \/ Len(c.dims[1][i + 1]) = 2
             THEN -1 ELSE c.dims[1][i + 1][1]]
    ELSE IF c.is_list THEN <<-1>> ELSE <<1>>

\* C1: compute_dims returns -1 followed by [1] for a plain scalar column, [-1] for a
\* list column without explicit shape, and for explicit dims one entry per dim after
\* the first, -1 for None or a range pair and the literal integer otherwise; the
\* results of the cases of test_compute_dims are the expected ones.
C1_ComputeDims ==
    computed_dims # None =>
        /\ Len(computed_dims[1]) >= 1
        /\ computed_dims[1][1] = -1
        /\ Tail(computed_dims[1]) = ExpectedRest(column_schema)
        /\ \A case \in test_compute_dims_cases :
               case[1] = column_schema => computed_dims[1] = case[2]

C1_Witness ==
    /\ computed_dims = Some(<<-1, -1>>)
    /\ column_schema.dims = Some(<<None, <<1, 4>> >>)

----------------------------------------------------------------------------
(* __init__ and _construct_schemas_from_model *)

\* col.dtype.as_numpy_dtype
as_numpy_dtype(dtype) ==
    CASE dtype = "tf.float32" -> "numpy.float32"
      [] dtype = "tf.int64" -> "numpy.int64"

\* the shapes of signature tensors: rank 1, or rank 2 with an unknown or known second dim
TensorShapes == { <<None>> } \cup { <<None, d>> : d \in {None} \cup { <<n>> : n \in 0..MaxDim } }

TensorSpecs(names) == [name : names, dtype : {"tf.float32", "tf.int64"}, shape : TensorShapes]

\* serving signatures: inputs a or a, b; one output c
Signatures ==
    [inputs : { <<x>> : x \in TensorSpecs({"a"}) }
                  \cup (TensorSpecs({"a"}) \X TensorSpecs({"b"})),
     outputs : { <<x>> : x \in TensorSpecs({"c"}) }]

\* the model_or_path arguments: nothing, a path to a saved model, or a model object;
\* signatures is what the model's "signatures" attribute holds for serving_default,
\* reloaded what the model exposes after a save and load
ModelArgs ==
    { [kind |-> "none", signatures |-> None, reloaded |-> None] }
    \cup [kind : {"path", "model"}, signatures : { Some(g) : g \in Signatures },
          reloaded : {None}]
    \cup [kind : {"path", "model"}, signatures : {None},
          reloaded : {None} \cup { Some(g) : g \in Signatures }]

model_path == <<"models", "saved">>

tmp_dir == <<"tmp", "tmpdir">>

NoCall ==
    [op |-> "", ok |-> TRUE, error |-> None, root |-> None, node_id |-> None,
     version |-> None, existed |-> FALSE, returned |-> None, requests |-> <<>>,
     reported |-> None, transformable |-> {}, package |-> None]

Raised(op, type, message) ==
    [NoCall EXCEPT !.op = op, !.ok = FALSE,
                   !.error = Some([type |-> type, message |-> message])]

\* leaving the "with tempfile.TemporaryDirectory()" block: the directory and all in it go
TemporaryDirectory_exit_keeps(d) == d

TemporaryDirectory_exit(d) == { p \in d : SubSeq(p, 1, Len(tmp_dir)) # tmp_dir }

_set_list_length_min_zero(col_schema, list_length) ==
    [col_schema EXCEPT !.is_list = TRUE, !.is_ragged = FALSE,
                       !.value_count = Some([min |-> 0, max |-> list_length])]

_set_list_length(col_schema, list_length) ==
    [col_schema EXCEPT !.is_list = TRUE, !.is_ragged = FALSE,
                       !.value_count = Some([min |-> list_length, max |-> list_length])]

\* col.shape[1] is defined
has_second_dim(col) == Len(col.shape) >= 2

\* "col.shape[1] and col.shape[1] > 1"
is_longer_than_one(col) == col.shape[2] # None /\ col.shape[2][1] # 0 /\ col.shape[2][1] > 1

\* the body of the two loops of _construct_schemas_from_model
derive_column(col) ==
    LET col_schema == ColumnSchema(col.name, as_numpy_dtype(col.dtype), FALSE, FALSE, None) IN
    IF is_longer_than_one(col) THEN _set_list_length(col_schema, col.shape[2][1])
    ELSE col_schema

derive_schema(tensors) == [i \in 1..Len(tensors) |-> derive_column(tensors[i])]

UNCHANGED_calls ==
    UNCHANGED <<tf_model_name, pbtxt, exported, lastExported, lastNamed, calls,
                column_schema, computed_dims>>

\* __init__ up to the call of _construct_schemas_from_model
init_operator ==
    /\ pc = "start"
    /\ tf_model_name' = None
    /\ IF model.kind = "none"
       THEN /\ pc' = "ready"
            /\ path' = None
       ELSE /\ pc' = "construct"
            /\ path' = IF model.kind = "path" THEN Some(model_path) ELSE None
    /\ UNCHANGED <<model, input_schema, output_schema, disk, pbtxt, last, exported,
                   lastExported, lastNamed, counts, calls, default_signature,
                   column_schema, computed_dims>>

\* signatures.get("serving_default"); when absent, enter the temporary directory
introspect_signature ==
    /\ pc = "construct"
    /\ IF model.signatures # None
       THEN /\ default_signature' = model.signatures
            /\ pc' = "derive"
            /\ UNCHANGED <<disk, counts>>
       ELSE /\ default_signature' = None
            /\ disk' = disk \cup {tmp_dir}
            /\ counts' = [counts EXCEPT !.tmp = @ + 1]
            /\ pc' = "tmp"
    /\ UNCHANGED <<model, path, input_schema, output_schema, last>>
    /\ UNCHANGED_calls

\* model.save(tf_model_path, include_optimizer=False)
save_to_tmp ==
    /\ pc = "tmp"
    /\ disk' = disk \cup {Append(tmp_dir, "model.savedmodel")}
    /\ counts' = [counts EXCEPT !.save = @ + 1]
    /\ pc' = "saved"
    /\ UNCHANGED <<model, path, input_schema, output_schema, last, default_signature>>
    /\ UNCHANGED_calls

\* load_model(tf_model_path); reloaded.signatures["serving_default"]; leave the with block
reload_from_tmp ==
    /\ pc = "saved"
    /\ counts' = [counts EXCEPT !.load = @ + 1]
    /\ disk' = TemporaryDirectory_exit(disk)
    /\ IF model.reloaded # None
       THEN /\ default_signature' = model.reloaded
            /\ pc' = "derive"
            /\ last' = last
       ELSE /\ default_signature' = None
            /\ pc' = "failed"
            /\ last' = Some(Raised("__init__", "KeyError", "serving_default"))
    /\ UNCHANGED <<model, path, input_schema, output_schema>>
    /\ UNCHANGED_calls

\* the two loops over the signature's tensors, and the assignment in __init__
derive_schemas ==
    /\ pc = "derive"
    /\ LET sig == default_signature[1] IN
       IF  /\ \A i \in 1..Len(sig.inputs) : has_second_dim(sig.inputs[i])
           /\ \A i \in 1..Len(sig.outputs) : has_second_dim(sig.outputs[i])
       THEN /\ input_schema' = Some(derive_schema(sig.inputs))
            /\ output_schema' = Some(derive_schema(sig.outputs))
            /\ pc' = "ready"
            /\ last' = last
       ELSE /\ pc' = "failed"
            /\ last' = Some(Raised("__init__", "IndexError", "list index out of range"))
            /\ UNCHANGED <<input_schema, output_schema>>
    /\ UNCHANGED <<model, path, disk, counts, default_signature>>
    /\ UNCHANGED_calls

InitConstruct ==
    /\ pc = "start"
    /\ model \in ModelArgs
    /\ path = None
    /\ input_schema = None
    /\ output_schema = None
    /\ tf_model_name = None
    /\ disk = {model_path}
    /\ pbtxt = << >>
    /\ last = None
    /\ exported = {}
    /\ lastExported = None
    /\ lastNamed = None
    /\ counts = [tmp |-> 0, save |-> 0, load |-> 0]
    /\ calls = 0
    /\ default_signature = None
    /\ column_schema = None
    /\ computed_dims = None

NextConstruct ==
    \/ init_operator
    \/ introspect_signature
    \/ save_to_tmp
    \/ reload_from_tmp
    \/ derive_schemas

SpecConstruct == InitConstruct /\ [][NextConstruct]_vars

\* a signature tensor's derived column: name and element type kept; a fixed-length list
\* with value_count min = max = L exactly when the second dim is a known L > 1
ColumnMatches(c, t) ==
    /\ c.name = t.name
    /\ c.dtype = (IF t.dtype = "tf.float32" THEN "numpy.float32" ELSE "numpy.int64")
    /\ c.dims = None
    /\ IF t.shape[2] # None /\ t.shape[2][1] > 1
       THEN /\ c.is_list /\ ~c.is_ragged
            /\ c.value_count = Some([min |-> t.shape[2][1], max |-> t.shape[2][1]])
       ELSE /\ ~c.is_list /\ ~c.is_ragged
            /\ c.value_count = None

SchemaMatches(schema, tensors) ==
    /\ Len(schema) = Len(tensors)
    /\ \A i \in 1..Len(tensors) : ColumnMatches(schema[i], tensors[i])

HasTmp == \E p \in disk : SubSeq(p, 1, Len(tmp_dir)) = tmp_dir

Exited == pc \in {"derive", "ready", "failed"}

\* C7: a serving_default signature the model exposes is used directly, with no
\* temporary directory, save or reload; only without it the model is saved to a
\* temporary directory and reloaded, once; when the reloaded model has no
\* serving_default either the construction fails with no schemas set; the temporary
\* directory is gone once the operation has exited, on success and on failure.
C7_TwoStepFallback ==
    /\ counts.tmp <= 1 /\ counts.save <= 1 /\ counts.load <= 1
    /\ model.signatures # None => counts = [tmp |-> 0, save |-> 0, load |-> 0]
    /\ (pc = "derive" /\ model.signatures # None) => default_signature = model.signatures
    /\ (model.kind # "none" /\ model.signatures = None /\ Exited) =>
           /\ counts = [tmp |-> 1, save |-> 1, load |-> 1]
           /\ IF model.reloaded = None
              THEN /\ pc = "failed"
                   /\ last = Some(Raised("__init__", "KeyError", "serving_default"))
                   /\ input_schema = None /\ output_schema = None
              ELSE default_signature = model.reloaded
    /\ Exited => ~HasTmp

C7_Witness ==
    /\ pc = "failed"
    /\ model.signatures = None /\ model.reloaded = None
    /\ counts.load = 1
    /\ ~HasTmp

\* C10: the derived schemas hold one column per tensor of the serving signature, in
\* its order, each keeping the tensor's name and element type, marked a fixed-length
\* list with value_count min = max = L exactly when the tensor's second dim is a known
\* L > 1, and a plain scalar column when it is None, 0 or 1.
C10_DerivedSchemas ==
    (pc = "ready" /\ model.kind # "none") =>
        /\ input_schema # None /\ output_schema # None
        /\ SchemaMatches(input_schema[1], default_signature[1].inputs)
        /\ SchemaMatches(output_schema[1], default_signature[1].outputs)

C10_Witness ==
    /\ pc = "ready"
    /\ input_schema # None
    /\ Len(input_schema[1]) = 2
    /\ input_schema[1][1].value_count = Some([min |-> 2, max |-> 2])
    /\ ~input_schema[1][2].is_list
    /\ default_signature[1].inputs[2].shape[2] = <<1>>
    /\ default_signature[1].outputs[1].shape[2] = None

----------------------------------------------------------------------------
(* export and _export_model_config *)

class_name == "PredictTensorflow"

\* str.lower() on the class names in use
lower(str) == CASE str = "PredictTensorflow" -> "predicttensorflow"

export_name == lower(class_name)

node_name_if_truthy(node_id) ==
    IF node_id # None /\ node_id[1] # 0
    THEN ToString(node_id[1]) \o "_" \o export_name
    ELSE export_name

\* f"{node_id}_{export_name}" if node_id is not None else export_name
node_name(node_id) ==
    IF node_id # None THEN ToString(node_id[1]) \o "_" \o export_name ELSE export_name

Parent(p) == SubSeq(p, 1, Len(p) - 1)

Prefixes(p) == { SubSeq(p, 1, k) : k \in 1..Len(p) }

Done(d) == [ok |-> TRUE, error |-> None, disk |-> d]

Failed(d, type, message) ==
    [ok |-> FALSE, error |-> Some([type |-> type, message |-> message]), disk |-> d]

\* pathlib.Path.mkdir(exist_ok=...), parents=False
mkdir(d, p, exist_ok) ==
    IF p \in d
    THEN IF exist_ok THEN Done(d) ELSE Failed(d, "FileExistsError", p[Len(p)])
    ELSE IF Parent(p) \notin d THEN Failed(d, "FileNotFoundError", p[Len(p)])
    ELSE Done(d \cup {p})

make_node_export_path_once(d, p) == mkdir(d, p, FALSE)

\* node_export_path.mkdir(exist_ok=True)
make_node_export_path(d, p) == mkdir(d, p, TRUE)

copy_model_ignore_errors(d, src, dst) == Done(d \cup Prefixes(dst))

\* copytree(str(self.path), tf_model_path, dirs_exist_ok=True)
copy_model(d, src, dst) ==
    IF src \notin d THEN Failed(d, "FileNotFoundError", src[Len(src)])
    ELSE Done(d \cup Prefixes(dst))

\* self.model.save(tf_model_path, include_optimizer=False)
save_model(d, dst) == Done(d \cup Prefixes(dst))

set_tf_model_name_once(current, name) == IF current = None THEN Some(name) ELSE current

\* set_tf_model_name: self._tf_model_name = tf_model_name
set_tf_model_name(current, name) == Some(name)

\* the Triton data type of a column's dtype
convert_dtype(dtype) ==
    CASE dtype = "numpy.float32" -> "TYPE_FP32"
      [] dtype = "numpy.int64" -> "TYPE_INT64"

\* add_model_param: one descriptor appended for the column
add_model_param(params, col_schema, dims) ==
    Append(params, [name |-> col_schema.name, data_type |-> convert_dtype(col_schema.dtype),
                    dims |-> dims])

RECURSIVE add_model_params(_, _)
add_model_params(params, schema) ==
    IF schema = <<>> THEN params
    ELSE add_model_params(
             add_model_param(params, Head(schema), compute_dims(Head(schema), scalar_shape)),
             Tail(schema))

_export_model_config_outputs_from_inputs(name, in_schema, out_schema) ==
    [name |-> name, backend |-> "tensorflow", platform |-> "tensorflow_savedmodel",
     parameters |-> << <<"TF_GRAPH_TAG", "serve">>, <<"TF_SIGNATURE_DEF", "serving_default">> >>,
     input |-> add_model_params(<<>>, in_schema),
     output |-> add_model_params(<<>>, in_schema)]

_export_model_config_no_signature_def(name, in_schema, out_schema) ==
    [name |-> name, backend |-> "tensorflow", platform |-> "tensorflow_savedmodel",
     parameters |-> << <<"TF_GRAPH_TAG", "serve">> >>,
     input |-> add_model_params(<<>>, in_schema),
     output |-> add_model_params(<<>>, out_schema)]

\* the ModelConfig message _export_model_config builds from self.input_schema and
\* self.output_schema; parameters is the map, in key order
_export_model_config(name, in_schema, out_schema) ==
    [name |-> name, backend |-> "tensorflow", platform |-> "tensorflow_savedmodel",
     parameters |-> << <<"TF_GRAPH_TAG", "serve">>, <<"TF_SIGNATURE_DEF", "serving_default">> >>,
     input |-> add_model_params(<<>>, in_schema),
     output |-> add_model_params(<<>>, out_schema)]

\* text_format.PrintMessage: one entry per set field, in field-number order
PrintMessage(config) ==
    << <<"name", config.name>>, <<"platform", config.platform>> >>
    \o [i \in 1..Len(config.input) |-> <<"input", config.input[i]>>]
    \o [i \in 1..Len(config.output) |-> <<"output", config.output[i]>>]
    \o [i \in 1..Len(config.parameters) |-> <<"parameters", config.parameters[i]>>]
    \o << <<"backend", config.backend>> >>

\* open(os.path.join(output_path, "config.pbtxt"), "w") and the write
write_file(files, p, text) ==
    [q \in DOMAIN files \cup {p} |-> IF q = p THEN text ELSE files[q]]

\* export, as a function of the operator, the disk and the arguments that it reads
export_outcome(root, node_id, version) ==
    LET name == node_name(node_id)
        node_export_path == Append(root, name)
        made == make_node_export_path(disk, node_export_path)
        tf_model_path == node_export_path \o <<ToString(version), "model.savedmodel">>
        call == [NoCall EXCEPT !.op = "export", !.root = Some(root), !.node_id = node_id,
                               !.version = Some(version), !.package = Some(name),
                               !.existed = (node_export_path \in disk)]
        unchanged == [call |-> call, disk |-> disk, pbtxt |-> pbtxt, name |-> tf_model_name]
    IN
    IF ~made.ok
    THEN [unchanged EXCEPT !.call = [call EXCEPT !.ok = FALSE, !.error = made.error]]
    ELSE IF model.kind = "none"
    THEN [unchanged EXCEPT !.disk = made.disk,
                           !.call = [call EXCEPT !.ok = FALSE,
                                        !.error = Some([type |-> "AttributeError",
                                                        message |-> "path"])]]
    ELSE LET stored == IF path # None THEN copy_model(made.disk, path[1], tf_model_path)
                       ELSE save_model(made.disk, tf_model_path)
         IN
         IF ~stored.ok
         THEN [unchanged EXCEPT !.disk = stored.disk,
                                !.call = [call EXCEPT !.ok = FALSE, !.error = stored.error]]
         ELSE LET config == _export_model_config(name, input_schema[1], output_schema[1]) IN
              [call |-> [call EXCEPT !.returned = Some(config)],
               disk |-> stored.disk \cup {Append(node_export_path, "config.pbtxt")},
               pbtxt |-> write_file(pbtxt, node_export_path, PrintMessage(config)),
               name |-> set_tf_model_name(tf_model_name, name)]

UNCHANGED_operator ==
    UNCHANGED <<pc, model, path, input_schema, output_schema, counts, default_signature,
                column_schema, computed_dims>>

export(root, arg_input_schema, arg_output_schema, params, node_id, version, backend) ==
    /\ pc = "ready"
    /\ calls < MaxCalls
    /\ calls' = calls + 1
    /\ LET out == export_outcome(root, node_id, version) IN
       /\ last' = Some(out.call)
       /\ disk' = out.disk
       /\ pbtxt' = out.pbtxt
       /\ tf_model_name' = out.name
       /\ IF out.call.ok
          THEN /\ exported' = exported \cup
                      {[root |-> root, node_id |-> node_id, version |-> version,
                        name |-> out.call.package[1]]}
               /\ lastExported' = out.call.package
               /\ lastNamed' = out.call.package
          ELSE UNCHANGED <<exported, lastExported, lastNamed>>
    /\ UNCHANGED_operator

\* the public setter, called with a name of the caller's choice
call_set_tf_model_name(name) ==
    /\ pc = "ready"
    /\ calls < MaxCalls
    /\ calls' = calls + 1
    /\ tf_model_name' = set_tf_model_name(tf_model_name, name)
    /\ lastNamed' = Some(name)
    /\ last' = Some([NoCall EXCEPT !.op = "set_tf_model_name"])
    /\ UNCHANGED <<disk, pbtxt, exported, lastExported>>
    /\ UNCHANGED_operator

----------------------------------------------------------------------------
(* transform *)

column_names(schema) == [i \in 1..Len(schema) |-> schema[i].name]

Range(seq) == { seq[i] : i \in 1..Len(seq) }

\* the first name, in order, that is not among those present (Optional)
RECURSIVE first_missing(_, _)
first_missing(names, present) ==
    IF names = <<>> THEN None
    ELSE IF Head(names) \notin present THEN Some(Head(names))
    ELSE first_missing(Tail(names), present)

ErrorMessages == {"Number Too High!!"}

\* what the inference client can answer to a request: a response with every requested
\* output, a response that carries an error and no outputs, or an exception; a request
\* without a model name may also be refused when it is built
InferenceReplies(request) ==
    { [kind |-> "response", error |-> Some(m), outputs |-> {}] : m \in ErrorMessages }
    \cup { [kind |-> "raise", error |-> Some(m), outputs |-> {}] : m \in ErrorMessages }
    \cup (IF request.model_name # None
          THEN { [kind |-> "response", error |-> None,
                  outputs |-> Range(request.requested_output_names)] }
          ELSE { [kind |-> "type_error", error |-> None, outputs |-> {}] })

\* pb_utils.InferenceRequest(model_name=..., requested_output_names=..., inputs=...)
InferenceRequest(transformable) ==
    [model_name |-> tf_model_name,
     requested_output_names |-> column_names(output_schema[1]),
     inputs |-> column_names(input_schema[1])]

\* transform, as a function of the operator, its argument and the client's reply
transform_outcome(transformable, reply) ==
    LET call == [NoCall EXCEPT !.op = "transform", !.transformable = transformable]
        raised(type, message) ==
            [call EXCEPT !.ok = FALSE, !.error = Some([type |-> type, message |-> message])]
    IN
    IF input_schema = None THEN raised("AttributeError", "input_schema")
    ELSE
    LET missing == first_missing(column_names(input_schema[1]), transformable)
        request == InferenceRequest(transformable)
    IN
    IF missing # None THEN raised("KeyError", missing[1])
    ELSE IF reply.kind = "type_error" THEN raised("TypeError", "model_name")
    ELSE IF reply.kind = "raise"
    THEN [raised("TritonModelException", reply.error[1])
              EXCEPT !.requests = <<request>>, !.reported = reply.error]
    ELSE LET absent == first_missing(request.requested_output_names, reply.outputs) IN
         IF absent # None
         THEN [raised("AttributeError", "'NoneType' object has no attribute 'as_numpy'")
                   EXCEPT !.requests = <<request>>, !.reported = reply.error]
         ELSE [call EXCEPT !.requests = <<request>>, !.reported = reply.error,
                           !.returned = Some(request.requested_output_names)]

transform(col_selector, transformable, reply) ==
    /\ pc = "ready"
    /\ calls < MaxCalls
    /\ calls' = calls + 1
    /\ input_schema # None => reply \in InferenceReplies(InferenceRequest(transformable))
    /\ last' = Some(transform_outcome(transformable, reply))
    /\ UNCHANGED <<tf_model_name, disk, pbtxt, exported, lastExported, lastNamed>>
    /\ UNCHANGED_operator

----------------------------------------------------------------------------
(* The operator in use: export, set_tf_model_name and transform calls *)

output_root == <<"out">>

Roots == {output_root, <<"absent">>}

NodeIds == {None} \cup { Some(n) : n \in 0..MaxNodeId }

Versions == 1..MaxVersion

\* inputs a (a list of 3 int64) and b (a float32), output c
signature_a_b_c ==
    [inputs |-> << [name |-> "a", dtype |-> "tf.int64", shape |-> <<None, <<3>> >>],
                   [name |-> "b", dtype |-> "tf.float32", shape |-> <<None, <<1>> >>] >>,
     outputs |-> << [name |-> "c", dtype |-> "tf.float32", shape |-> <<None, None>>] >>]

\* input a, output c (a list of 2 float32)
signature_a_c ==
    [inputs |-> << [name |-> "a", dtype |-> "tf.float32", shape |-> <<None, None>>] >>,
     outputs |-> << [name |-> "c", dtype |-> "tf.float32", shape |-> <<None, <<2>> >>] >>]

\* the operators the calls are made on
WrappedModels ==
    { [kind |-> "path", signatures |-> Some(signature_a_b_c), reloaded |-> None],
      [kind |-> "model", signatures |-> None, reloaded |-> Some(signature_a_c)],
      [kind |-> "none", signatures |-> None, reloaded |-> None] }

\* the arguments of export that it does not read: the schemas, params and backend
ExportArguments ==
    { [input_schema |-> <<>>, output_schema |-> <<>>, params |-> None,
       backend |-> "ensemble"],
      [input_schema |-> << ColumnSchema("x", "numpy.int64", FALSE, FALSE, None) >>,
       output_schema |-> << ColumnSchema("y", "numpy.int64", TRUE, TRUE, None) >>,
       params |-> None, backend |-> "executor"] }

\* the operator as __init__ leaves it; the directory of a model given by path may have
\* been removed since it was loaded
Init ==
    /\ pc = "ready"
    /\ model \in WrappedModels
    /\ path = IF model.kind = "path" THEN Some(model_path) ELSE None
    /\ default_signature = IF model.signatures # None THEN model.signatures ELSE model.reloaded
    /\ input_schema = IF model.kind = "none" THEN None
                      ELSE Some(derive_schema(default_signature[1].inputs))
    /\ output_schema = IF model.kind = "none" THEN None
                       ELSE Some(derive_schema(default_signature[1].outputs))
    /\ tf_model_name = None
    /\ disk \in IF model.kind = "path" THEN { {output_root}, {output_root, model_path} }
                ELSE { {output_root} }
    /\ pbtxt = << >>
    /\ last = None
    /\ exported = {}
    /\ lastExported = None
    /\ lastNamed = None
    /\ counts = IF model.kind = "model" THEN [tmp |-> 1, save |-> 1, load |-> 1]
                ELSE [tmp |-> 0, save |-> 0, load |-> 0]
    /\ calls = 0
    /\ column_schema = None
    /\ computed_dims = None

Next ==
    \/ \E root \in Roots, args \in ExportArguments, node_id \in NodeIds,
          version \in Versions :
           export(root, args.input_schema, args.output_schema, args.params, node_id,
                  version, args.backend)
    \/ \E name \in {"custom", node_name(Some(0))} : call_set_tf_model_name(name)
    \/ \E transformable \in SUBSET {"a", "b"},
          reply \in [kind : {"response", "raise", "type_error"},
                     error : {None} \cup { Some(m) : m \in ErrorMessages },
                     outputs : SUBSET {"c"}] :
           transform(None, transformable, reply)

Spec == Init /\ [][Next]_vars

----------------------------------------------------------------------------
(* Properties of export, set_tf_model_name and transform *)

\* the values of a field of a written config, in the order they are printed
Field(text, field) ==
    LET Is(entry) == entry[1] = field
        entries == SelectSeq(text, Is)
    IN [i \in 1..Len(entries) |-> entries[i][2]]

IsLast(op) == last # None /\ last[1].op = op

\* C2: the package directory name export chooses is "<node_id>_<exportname>" when
\* node_id is given (0 included) and "<exportname>" when it is None, so two exports
\* with the same node_id chose the same name, whatever the version, the other
\* arguments and the earlier calls were.
C2_PackageName ==
    /\ IsLast("export") =>
           last[1].package =
               Some(IF last[1].node_id = None THEN "predicttensorflow"
                    ELSE ToString(last[1].node_id[1]) \o "_" \o "predicttensorflow")
    /\ \A e \in exported :
           /\ e.name = (IF e.node_id = None THEN "predicttensorflow"
                        ELSE ToString(e.node_id[1]) \o "_" \o "predicttensorflow")
           /\ Append(e.root, e.name) \in disk
    /\ \A e, f \in exported : e.node_id = f.node_id => e.name = f.name

C2_Witness ==
    /\ \E e, f \in exported :
           e.node_id = Some(0) /\ f.node_id = Some(0) /\ e.version # f.version
    /\ \E e \in exported : e.node_id = None
    /\ IsLast("export") /\ last[1].ok

\* the model this operator exports can be stored: it wraps a model, and a model
\* given by path is still on disk
SourceAvailable == model.kind # "none" /\ (path # None => path[1] \in disk)

\* C3: for every successful export the artifact is at
\* <root>/<package>/<version>/model.savedmodel and <root>/<package>/config.pbtxt is
\* there, also after later exports; an export into a package directory that exists
\* already does not fail for that, and succeeds when the model can be stored.
C3_DiskLayout ==
    /\ \A e \in exported :
           /\ e.root \o <<e.name, ToString(e.version), "model.savedmodel">> \in disk
           /\ e.root \o <<e.name, "config.pbtxt">> \in disk
           /\ Append(e.root, e.name) \in DOMAIN pbtxt
    /\ (IsLast("export") /\ last[1].existed) =>
           /\ last[1].ok <=> SourceAvailable
           /\ ~last[1].ok => last[1].error[1].type # "FileExistsError"

C3_Witness ==
    /\ IsLast("export") /\ last[1].ok /\ last[1].existed
    /\ \E e, f \in exported : e.name = f.name /\ e.version # f.version

NameAndDims(descriptors) ==
    [i \in 1..Len(descriptors) |->
        [name |-> descriptors[i].name, dims |-> descriptors[i].dims]]

ExpectedNameAndDims(schema) ==
    [i \in 1..Len(schema) |->
        [name |-> schema[i].name, dims |-> compute_dims(schema[i], scalar_shape)]]

\* C4: every config export produces (returned, and written to config.pbtxt) lists one
\* input per column of the stored input schema and one output per column of the
\* stored output schema, in schema order and nothing else, each with the column's
\* name and the dims compute_dims yields; the schemas passed to export, which all
\* differ from the stored ones, play no part.
C4_ConfigTensors ==
    /\ \A p \in DOMAIN pbtxt :
           /\ NameAndDims(Field(pbtxt[p], "input")) = ExpectedNameAndDims(input_schema[1])
           /\ NameAndDims(Field(pbtxt[p], "output")) = ExpectedNameAndDims(output_schema[1])
    /\ (IsLast("export") /\ last[1].ok) =>
           /\ NameAndDims(last[1].returned[1].input) = ExpectedNameAndDims(input_schema[1])
           /\ NameAndDims(last[1].returned[1].output) = ExpectedNameAndDims(output_schema[1])

C4_Witness ==
    /\ IsLast("export") /\ last[1].ok
    /\ NameAndDims(Field(pbtxt[Append(last[1].root[1], last[1].package[1])], "input"))
           = << [name |-> "a", dims |-> <<-1, -1>>], [name |-> "b", dims |-> <<-1, 1>>] >>
    /\ NameAndDims(last[1].returned[1].output) = << [name |-> "c", dims |-> <<-1, 1>>] >>

\* C5: every config export writes is named after its package directory, has backend
\* "tensorflow", platform "tensorflow_savedmodel" and exactly the two parameters
\* TF_GRAPH_TAG = "serve" and TF_SIGNATURE_DEF = "serving_default".
C5_ConfigHeader ==
    \A p \in DOMAIN pbtxt :
        /\ Field(pbtxt[p], "name") = << p[Len(p)] >>
        /\ Field(pbtxt[p], "backend") = << "tensorflow" >>
        /\ Field(pbtxt[p], "platform") = << "tensorflow_savedmodel" >>
        /\ Field(pbtxt[p], "parameters") =
               << <<"TF_GRAPH_TAG", "serve">>, <<"TF_SIGNATURE_DEF", "serving_default">> >>

C5_Witness ==
    /\ Cardinality(DOMAIN pbtxt) = 2
    /\ IsLast("export") /\ last[1].ok

\* C6: when the inference call of transform, made by an exported operator, reports an
\* error, transform fails, after that one request, with a failure that carries the
\* reported message.
C6_ErrorPropagates ==
    (IsLast("transform") /\ last[1].reported # None /\ lastExported # None) =>
        /\ ~last[1].ok
        /\ Len(last[1].requests) = 1
        /\ last[1].error[1].message = last[1].reported[1]

\* C8: an export by an operator built from a path that no longer exists fails, with
\* the copy's error once the package directory could be made; it writes no
\* config.pbtxt and leaves the recorded package name as it was.
C8_MissingPath ==
    [][(path # None /\ path[1] \notin disk /\ calls' = calls + 1 /\ last'[1].op = "export") =>
           /\ ~last'[1].ok
           /\ last'[1].error[1].type = "FileNotFoundError"
           /\ last'[1].root[1] \in disk =>
                  last'[1].error[1].message = path[1][Len(path[1])]
           /\ pbtxt' = pbtxt
           /\ \A p \in disk' \ disk : p[Len(p)] # "config.pbtxt"
           /\ tf_model_name' = tf_model_name
           /\ exported' = exported]_vars

C8_Witness ==
    /\ IsLast("export") /\ ~last[1].ok
    /\ path # None /\ path[1] \notin disk
    /\ last[1].error = Some([type |-> "FileNotFoundError", message |-> "saved"])
    /\ Append(output_root, last[1].package[1]) \in disk
    /\ tf_model_name = Some("custom")

TransformRequestIs(request) ==
    /\ request.model_name = tf_model_name
    /\ request.inputs = column_names(input_schema[1])
    /\ request.requested_output_names = column_names(output_schema[1])

\* C9 as stated: the recorded package name is None until an export has succeeded and
\* then the name of the most recent successful export; every transform call issues
\* exactly one request, to the recorded name, with the input columns, asking for the
\* output columns, and returns exactly the output columns.
C9_AsStated ==
    /\ tf_model_name = lastExported
    /\ IsLast("transform") =>
           /\ Len(last[1].requests) = 1
           /\ TransformRequestIs(last[1].requests[1])
           /\ last[1].returned = Some(column_names(output_schema[1]))

\* C9, amended: the recorded package name is the name given by the most recent
\* successful export or set_tf_model_name call, None before any; a transform call
\* issues at most one request, and exactly one, to the recorded name, with the input
\* columns and asking for the output columns, when a name is recorded and its argument
\* holds every input column; it returns exactly the output columns when that request
\* is answered without an error, and fails otherwise.
C9_RecordedName ==
    /\ tf_model_name = lastNamed
    /\ lastExported # None =>
           \E p \in DOMAIN pbtxt :
               p[Len(p)] = lastExported[1] /\ Field(pbtxt[p], "name") = lastExported
    /\ IsLast("transform") =>
           /\ Len(last[1].requests) <= 1
           /\ \A i \in 1..Len(last[1].requests) : TransformRequestIs(last[1].requests[i])
           /\ (/\ input_schema # None
               /\ tf_model_name # None
               /\ Range(column_names(input_schema[1])) \subseteq last[1].transformable)
                  => Len(last[1].requests) = 1
           /\ last[1].ok <=> (Len(last[1].requests) = 1 /\ last[1].reported = None)
           /\ last[1].ok => last[1].returned = Some(column_names(output_schema[1]))

C9_Witness ==
    /\ IsLast("transform") /\ last[1].ok
    /\ lastExported = Some("0_predicttensorflow")
    /\ last[1].requests[1].model_name = Some("0_predicttensorflow")
    /\ last[1].requests[1].inputs = <<"a", "b">>
    /\ last[1].returned = Some(<<"c">>)

====
